---- MODULE Spec2Model ----
(***************************************************************************)
(* Model of the arXiv paper indexing helper: search_papers and             *)
(* extract_info (arxiv_searcher.py) and execute_tool (tool_dispatcher.py). *)
(*                                                                         *)
(* Strings are sequences of one-character strings, so that lower(),        *)
(* replace(), join() and strftime() are computed, not assumed.  The file   *)
(* system is the set of existing directories plus, for every directory,    *)
(* the content of its papers_info.json.  A directory is a sequence of path *)
(* components below the working directory (PAPER_DIR = ".").               *)
(***************************************************************************)
EXTENDS Integers, Sequences, FiniteSets, TLC

VARIABLES files, dirs, last

vars == <<files, dirs, last>>

(***************************************************************************)
(* Bounds                                                                  *)
(***************************************************************************)
\* longest batch the search collaborator returns when one store is merged
\* into again and again (SpecMerge)
MaxBatch == 3
\* longest batch it returns when several topics are searched
MaxResults == 1
\* longest hand-written papers_info.json list a run may start from
MaxInitLen == 1

(***************************************************************************)
(* Generic helpers                                                         *)
(***************************************************************************)
Range(s) == {s[i] : i \in 1..Len(s)}

SeqsUpTo(S, n) == UNION {[1..k -> S] : k \in 0..n}

Perms(S) == {p \in [1..Cardinality(S) -> S] : Range(p) = S}

\* s in t, for strings
Contains(t, s) ==
    \E i \in 0..(Len(t) - Len(s)) : SubSeq(t, i + 1, i + Len(s)) = s

IsPrefix(s, t) == Len(s) <= Len(t) /\ SubSeq(t, 1, Len(s)) = s

(***************************************************************************)
(* str.lower() and str.replace(" ", "_")                                   *)
(***************************************************************************)
UpperCase == <<"A","B","C","D","E","F","G","H","I","J","K","L","M",
               "N","O","P","Q","R","S","T","U","V","W","X","Y","Z">>
LowerCase == <<"a","b","c","d","e","f","g","h","i","j","k","l","m",
               "n","o","p","q","r","s","t","u","v","w","x","y","z">>

LowerChar(c) ==
    IF \E i \in 1..26 : UpperCase[i] = c
    THEN LowerCase[CHOOSE i \in 1..26 : UpperCase[i] = c]
    ELSE c

Lower(s) == [i \in 1..Len(s) |-> LowerChar(s[i])]

\* a variant that keeps the spaces
ReplaceSpaceNone(s) == s

ReplaceSpace(s) == [i \in 1..Len(s) |-> IF s[i] = " " THEN "_" ELSE s[i]]

\* directory_name = topic.lower().replace(" ", "_")
Sanitize(topic) == ReplaceSpace(Lower(topic))

(***************************************************************************)
(* Paths: os.makedirs, os.path.join, os.listdir                            *)
(***************************************************************************)
RECURSIVE SplitPath(_)
\* the components of a relative path name, split at "/"
SplitPath(name) ==
    IF \A i \in 1..Len(name) : name[i] # "/"
    THEN IF name = <<>> THEN <<>> ELSE <<name>>
    ELSE LET i == CHOOSE j \in 1..Len(name) :
                      name[j] = "/" /\ \A k \in 1..(j - 1) : name[k] # "/"
             head == SubSeq(name, 1, i - 1)
             rest == SplitPath(SubSeq(name, i + 1, Len(name)))
         IN  IF head = <<>> THEN rest ELSE <<head>> \o rest

\* the directory a topic's papers_info.json lives in
TopicDir(topic) == SplitPath(Sanitize(topic))

\* os.makedirs(d, exist_ok=True) creates d and all its missing parents
MakeDirs(d) == {SubSeq(d, 1, n) : n \in 1..Len(d)}

(***************************************************************************)
(* The world the program runs in                                           *)
(***************************************************************************)
TopicQC   == <<"Q", " ", "C">>
TopicQc   == <<"q", "_", "c">>
TopicML   == <<"M", "L">>
TopicAIML == <<"A", "I", "/", "M", "L">>

Topics == {TopicQC, TopicQc, TopicML, TopicAIML}

IdX == <<"x">>
IdY == <<"y">>
IdZ == <<"z">>
\* an identifier the collaborator never returns
IdW == <<"w">>

\* arxiv.Result objects as the collaborator returns them
PaperX1 == [entry_id |-> IdX, title |-> <<"X", "1">>,
            authors |-> <<[name |-> <<"A">>], [name |-> <<"B">>]>>,
            summary |-> <<"s">>, pdf_url |-> <<"u">>,
            published |-> [year |-> 2020, month |-> 1, day |-> 2]]
\* the same entry_id served with other fields
PaperX2 == [entry_id |-> IdX, title |-> <<"X", "2">>,
            authors |-> <<[name |-> <<"A">>]>>,
            summary |-> <<"s">>, pdf_url |-> <<"u">>,
            published |-> [year |-> 2021, month |-> 11, day |-> 30]]
PaperY  == [entry_id |-> IdY, title |-> <<"Y">>,
            authors |-> <<[name |-> <<"B">>]>>,
            summary |-> <<"s">>, pdf_url |-> <<"u">>,
            published |-> [year |-> 2019, month |-> 12, day |-> 9]]
PaperZ  == [entry_id |-> IdZ, title |-> <<"Z">>,
            authors |-> <<>>,
            summary |-> <<"s">>, pdf_url |-> <<"u">>,
            published |-> [year |-> 2022, month |-> 3, day |-> 15]]

Papers == {PaperX1, PaperX2, PaperY, PaperZ}

Batches == SeqsUpTo(Papers, MaxBatch)

\* the catalogue when several topics are searched
SmallPapers == {PaperX1, PaperX2, PaperY}

SmallBatches == SeqsUpTo(SmallPapers, MaxResults)

LookupIds == {IdX, IdY, IdZ, IdW}

\* TopicDir, tabulated for the topics of this world
DirOf == [t \in Topics |-> TopicDir(t)]

\* every directory the program can create
AllDirs == UNION {MakeDirs(DirOf[t]) : t \in Topics}

(***************************************************************************)
(* Paper metadata (search_papers, the dictionary built per new paper)      *)
(***************************************************************************)
Digits == <<"0", "1", "2", "3", "4", "5", "6", "7", "8", "9">>

Digit(n) == Digits[(n % 10) + 1]

\* published.strftime('%Y-%m-%d')
Strftime(d) ==
    <<Digit(d.year \div 1000), Digit(d.year \div 100),
      Digit(d.year \div 10), Digit(d.year), "-",
      Digit(d.month \div 10), Digit(d.month), "-",
      Digit(d.day \div 10), Digit(d.day)>>

Metadata(paper) ==
    [title          |-> paper.title,
     authors        |-> [i \in 1..Len(paper.authors) |-> paper.authors[i].name],
     summary        |-> paper.summary,
     pdf_url        |-> paper.pdf_url,
     published_date |-> Strftime(paper.published),
     entry_id       |-> paper.entry_id]

\* Metadata, tabulated for the papers of this world
MetadataOf == [p \in Papers |-> Metadata(p)]

(***************************************************************************)
(* File contents.  A papers_info.json is absent, is not JSON, holds a JSON *)
(* value that is not a list, or holds a list of JSON values; a list item   *)
(* is a dictionary (a function from field names to values) or a number.    *)
(***************************************************************************)
Absent      == [kind |-> "absent"]
InvalidJson == [kind |-> "invalid"]
JsonObject  == [kind |-> "object"]
JsonList(items) == [kind |-> "list", items |-> items]

Dict(d)    == [t |-> "dict", d |-> d]
JsonNumber == [t |-> "number"]

HasEntryId(item) == item.t = "dict" /\ "entry_id" \in DOMAIN item.d

\* the list search_papers works on after loading the file
Load(content) ==
    IF content.kind = "list" THEN content.items ELSE <<>>

\* p['entry_id'] for p in all_papers_metadata if 'entry_id' in p
\* raises TypeError on an item that is no container of strings
EntryIdsRaises(all) == \E i \in 1..Len(all) : all[i].t # "dict"

ExistingEntryIds(all) ==
    {all[i].d.entry_id : i \in {j \in 1..Len(all) : HasEntryId(all[j])}}

(***************************************************************************)
(* search_papers: the loop over the results                                *)
(***************************************************************************)
\* a variant that never finds a paper already stored
IsNewAlways(paper, existing) == TRUE

\* if paper_entry_id not in existing_entry_ids
IsNew(paper, existing) == paper.entry_id \notin existing

\* a variant that forgets the identifiers added during this search
KnownAfterForgetful(paper, existing) == existing

\* existing_entry_ids.add(paper_entry_id)
KnownAfter(paper, existing) == existing \cup {paper.entry_id}

\* a variant that puts the newest record first
AppendRecordFirst(all, paper) == <<Dict(MetadataOf[paper])>> \o all

\* all_papers_metadata.append(metadata)
AppendRecord(all, paper) == Append(all, Dict(MetadataOf[paper]))

\* a variant that reports every identifier once only
RecordIdOnce(ids, paper) ==
    IF paper.entry_id \in Range(ids) THEN ids ELSE Append(ids, paper.entry_id)

\* current_search_paper_ids.append(paper_entry_id)
RecordId(ids, paper) == Append(ids, paper.entry_id)

RECURSIVE ProcessResults(_, _, _, _)
ProcessResults(results, all, existing, ids) ==
    IF results = <<>>
    THEN [all |-> all, ids |-> ids]
    ELSE LET paper == Head(results)
         IN  IF IsNew(paper, existing)
             THEN ProcessResults(Tail(results), AppendRecord(all, paper),
                                 KnownAfter(paper, existing),
                                 RecordId(ids, paper))
             ELSE ProcessResults(Tail(results), all, existing,
                                 RecordId(ids, paper))

\* a variant that writes only the records this search added
PersistedOnlyNew(content, results) ==
    LET all    == Load(content)
        merged == ProcessResults(results, all, ExistingEntryIds(all), <<>>).all
    IN  JsonList(SubSeq(merged, Len(all) + 1, Len(merged)))

\* what json.dump writes back
Persisted(content, results) ==
    LET all == Load(content)
    IN  JsonList(ProcessResults(results, all, ExistingEntryIds(all), <<>>).all)

\* the identifiers search_papers returns
CurrentSearchIds(content, results) ==
    LET all == Load(content)
    IN  ProcessResults(results, all, ExistingEntryIds(all), <<>>).ids

\* the collaborator either raises or returns a batch
CollabOf(batches) ==
    [ok : {FALSE}, results : {<<>>}] \cup [ok : {TRUE}, results : batches]

\* the answers of the collaborator in each world
Collabs      == CollabOf(Batches)
SmallCollabs == CollabOf(SmallBatches)

SearchOutcome(content, collab) ==
    IF EntryIdsRaises(Load(content)) THEN "TypeError"
    ELSE IF ~collab.ok THEN "CollaboratorError"
    ELSE "returned"

\* a variant that opens the file for writing before the search is made
WritesFileEarly(outcome) == outcome # "TypeError"

\* the file is written only once the results are in
WritesFile(outcome) == outcome = "returned"

(***************************************************************************)
(* Values the operations return                                            *)
(***************************************************************************)
RetNothing    == [type |-> "nothing"]
RetList(ids)  == [type |-> "list", ids |-> ids]
RetStr(chars) == [type |-> "str", chars |-> chars]
\* the text json.dumps(d, indent=4) produces for dictionary d
JsonText(d)   == [type |-> "json_text", obj |-> d]

NotFoundMessage(paper_id) ==
    <<"There's no saved information related to paper ">> \o paper_id \o <<".">>

(***************************************************************************)
(* extract_info                                                            *)
(***************************************************************************)
FileAt(fs, d) == IF d \in DOMAIN fs THEN fs[d] ELSE Absent

\* os.listdir(PAPER_DIR): the names directly below the working directory
ListDir(ds) == {d[1] : d \in ds}

\* the loop over one loaded list: the first item that either matches or
\* makes paper_metadata.get raise decides
ScanStore(items, paper_id) ==
    LET stops == {i \in 1..Len(items) :
                     \/ items[i].t # "dict"
                     \/ /\ HasEntryId(items[i])
                        /\ items[i].d.entry_id = paper_id}
    IN  IF stops = {} THEN [found |-> FALSE]
        ELSE LET i == CHOOSE j \in stops : \A k \in stops : j <= k
             IN  IF items[i].t = "dict"
                 THEN [found |-> TRUE, d |-> items[i].d]
                 ELSE [found |-> FALSE]

\* a variant that gives up after the first directory
ScanDirsFirstOnly(fs, order, paper_id) ==
    IF order = <<>>
    THEN RetStr(NotFoundMessage(paper_id))
    ELSE LET content == FileAt(fs, <<Head(order)>>)
             hit     == ScanStore(Load(content), paper_id)
         IN  IF content.kind = "list" /\ hit.found
             THEN JsonText(hit.d)
             ELSE RetStr(NotFoundMessage(paper_id))

RECURSIVE ScanDirs(_, _, _)
\* extract_info(paper_id) when os.listdir enumerates in this order
ScanDirs(fs, order, paper_id) ==
    IF order = <<>>
    THEN RetStr(NotFoundMessage(paper_id))
    ELSE LET content == FileAt(fs, <<Head(order)>>)
             hit     == ScanStore(Load(content), paper_id)
         IN  IF content.kind = "list" /\ hit.found
             THEN JsonText(hit.d)
             ELSE ScanDirs(fs, Tail(order), paper_id)

(***************************************************************************)
(* execute_tool                                                            *)
(***************************************************************************)
TOOL_REGISTRY == {"search_papers", "extract_info"}

\* names a caller may ask for
ToolNames == TOOL_REGISTRY \cup {"searchAndPersist", "lookup", "nope"}

RECURSIVE JoinIds(_)
\* ", ".join(map(str, result))
JoinIds(ids) ==
    IF ids = <<>> THEN <<>>
    ELSE IF Len(ids) = 1 THEN Head(ids)
    ELSE Head(ids) \o <<",", " ">> \o JoinIds(Tail(ids))

FormatResult(result) ==
    IF result.type = "nothing"
    THEN RetStr(<<"The operation completed but didn't return any results.">>)
    ELSE IF result.type = "list" THEN RetStr(JoinIds(result.ids))
    ELSE result

\* the orders os.listdir can enumerate a set of names in
Orders == [ns \in SUBSET ListDir(AllDirs) |-> Perms(ns)]

ToolNotFoundMessage(tool_name) == <<"Tool '", tool_name, "' not found.">>

\* a variant that accepts the operation names of the design document
IsRegisteredOrAlias(tool_name) ==
    tool_name \in TOOL_REGISTRY \cup {"searchAndPersist", "lookup"}

\* if tool_name in TOOL_REGISTRY
IsRegistered(tool_name) == tool_name \in TOOL_REGISTRY

(***************************************************************************)
(* State                                                                   *)
(*   files  the content of papers_info.json in every directory             *)
(*   dirs   the directories that exist                                     *)
(*   last   the most recent call: its arguments, the collaborator's        *)
(*          answer, the searched store as it was found, and what the       *)
(*          caller got back; repeat says that the call before it was the   *)
(*          same search with the same answer                               *)
(***************************************************************************)
NoCall == [op |-> "none", tool |-> "", topic |-> <<>>, paper_id |-> <<>>,
           collab |-> [ok |-> TRUE, results |-> <<>>], before |-> Absent,
           outcome |-> "none", ret |-> RetNothing, message |-> <<>>,
           repeat |-> FALSE]

Init ==
    /\ files = [d \in AllDirs |-> Absent]
    /\ dirs = {}
    /\ last = NoCall

\* papers_info.json files written by hand before the program runs
HandItems == {JsonNumber, Dict([title |-> <<"t">>]), Dict(MetadataOf[PaperX1])}

HandContents ==
    {Absent, InvalidJson, JsonObject}
        \cup {JsonList(items) : items \in SeqsUpTo(HandItems, MaxInitLen)}

TolerantTopics == {TopicQC, TopicML}

InitTolerant ==
    /\ files \in {f \in [AllDirs -> HandContents] :
                     \A d \in AllDirs :
                         d \notin {DirOf[t] : t \in TolerantTopics}
                             => f[d] = Absent}
    /\ dirs = {d \in AllDirs : files[d] # Absent}
    /\ last = NoCall

(***************************************************************************)
(* Operations                                                              *)
(***************************************************************************)
\* search_papers(topic) with the collaborator answering collab; tool is the
\* name it was dispatched under, "" for a direct call
SearchPapersCall(topic, collab, tool) ==
    LET d       == DirOf[topic]
        content == FileAt(files, d)
        outcome == SearchOutcome(content, collab)
        ret     == RetList(CurrentSearchIds(content, collab.results))
    IN  /\ dirs' = dirs \cup MakeDirs(d)
        /\ files' = IF WritesFile(outcome)
                    THEN [files EXCEPT ![d] = Persisted(content, collab.results)]
                    ELSE files
        /\ last' = [NoCall EXCEPT
                      !.op = "search_papers", !.tool = tool, !.topic = topic,
                      !.collab = collab, !.before = content,
                      !.outcome = outcome,
                      !.ret = IF outcome # "returned" THEN RetNothing
                              ELSE IF tool = "" THEN ret ELSE FormatResult(ret),
                      !.repeat = /\ outcome = "returned"
                                 /\ last.op = "search_papers"
                                 /\ last.outcome = "returned"
                                 /\ last.topic = topic
                                 /\ last.collab = collab]

ExtractInfoCall(paper_id, order, tool) ==
    LET ret == ScanDirs(files, order, paper_id)
    IN  /\ UNCHANGED <<files, dirs>>
        /\ last' = [NoCall EXCEPT
                      !.op = "extract_info", !.tool = tool,
                      !.paper_id = paper_id, !.outcome = "returned",
                      !.ret = IF tool = "" THEN ret ELSE FormatResult(ret)]

SearchPapers(topic, collab) == SearchPapersCall(topic, collab, "")

ExtractInfo(paper_id, order) == ExtractInfoCall(paper_id, order, "")

ExecuteTool(tool_name) ==
    IF IsRegistered(tool_name)
    THEN IF tool_name = "search_papers"
         THEN \E topic \in Topics, collab \in SmallCollabs :
                  SearchPapersCall(topic, collab, tool_name)
         ELSE \E paper_id \in LookupIds, order \in Orders[ListDir(dirs)] :
                  ExtractInfoCall(paper_id, order, tool_name)
    ELSE /\ UNCHANGED <<files, dirs>>
         /\ last' = [NoCall EXCEPT
                       !.op = "execute_tool", !.tool = tool_name,
                       !.outcome = "ToolNotFoundError",
                       !.message = ToolNotFoundMessage(tool_name)]

(***************************************************************************)
(* Specifications                                                          *)
(***************************************************************************)
DoSearchPapers ==
    \E topic \in Topics, collab \in SmallCollabs :
        SearchPapers(topic, collab)

DoExtractInfo ==
    \E paper_id \in LookupIds, order \in Orders[ListDir(dirs)] :
        ExtractInfo(paper_id, order)

Next == DoSearchPapers \/ DoExtractInfo

\* searches over several topics and lookups, from an empty working directory
Spec == Init /\ [][Next]_vars

DoSearchMerge ==
    \E collab \in Collabs : SearchPapers(TopicQC, collab)

NextMerge == DoSearchMerge

\* one topic searched again and again with long batches
SpecMerge == Init /\ [][NextMerge]_vars

DoSearchTolerant ==
    \E topic \in TolerantTopics, collab \in SmallCollabs :
        SearchPapers(topic, collab)

NextTolerant == DoSearchTolerant \/ DoExtractInfo

\* searches and lookups over a working directory with hand-written files
SpecTolerant == InitTolerant /\ [][NextTolerant]_vars

DoExecuteTool == \E tool_name \in ToolNames : ExecuteTool(tool_name)

NextDispatch == DoExecuteTool

\* every call goes through the dispatcher
SpecDispatch == Init /\ [][NextDispatch]_vars

(***************************************************************************)
(* Properties                                                              *)
(***************************************************************************)
\* the store the last search worked on, as it is now
StoreNow == FileAt(files, DirOf[last.topic])

SearchReturned == last.op = "search_papers" /\ last.outcome = "returned"

BatchIds(results) == [i \in 1..Len(results) |-> results[i].entry_id]

RecordsWithId(items, id) ==
    {i \in 1..Len(items) : HasEntryId(items[i]) /\ items[i].d.entry_id = id}

\* C1: within every topic store the entry_id values are pairwise distinct;
\* a batch that names one entry_id twice adds at most one record for it.
C1_UniqueEntryIds ==
    \A d \in AllDirs :
        LET items == Load(files[d])
        IN  \A i, j \in 1..Len(items) :
                (i # j /\ HasEntryId(items[i]) /\ HasEntryId(items[j]))
                    => items[i].d.entry_id # items[j].d.entry_id

\* a batch named a new entry_id twice and the store holds it once
C1_Witness ==
    /\ SearchReturned
    /\ \E i, j \in 1..Len(last.collab.results) :
          /\ i < j
          /\ last.collab.results[i].entry_id = last.collab.results[j].entry_id
          /\ last.collab.results[i].entry_id
                 \notin ExistingEntryIds(Load(last.before))
          /\ Cardinality(RecordsWithId(Load(StoreNow),
                                       last.collab.results[i].entry_id)) = 1

\* C2: a search that reaches its persist step keeps every record that was
\* stored before, with the same fields and in the same order, and only
\* appends after them.
C2_AppendOnly ==
    SearchReturned => IsPrefix(Load(last.before), Load(StoreNow))

\* a search met a stored record again with other fields and appended another
C2_Witness ==
    /\ SearchReturned
    /\ Len(Load(last.before)) >= 2
    /\ Len(Load(StoreNow)) > Len(Load(last.before))
    /\ \E i \in 1..Len(last.collab.results), j \in 1..Len(Load(last.before)) :
          /\ last.collab.results[i].entry_id = Load(last.before)[j].d.entry_id
          /\ MetadataOf[last.collab.results[i]] # Load(last.before)[j].d

\* C3: a search run twice in a row for one topic with the same batch leaves
\* the store after the second run with the same set of entry_ids as after
\* the first, and adds no record.
C3_Idempotent ==
    last.repeat =>
        /\ ExistingEntryIds(Load(StoreNow)) = ExistingEntryIds(Load(last.before))
        /\ Len(Load(StoreNow)) = Len(Load(last.before))

\* the same non-empty batch came back twice in a row
C3_Witness ==
    /\ last.repeat
    /\ Len(last.collab.results) >= 2
    /\ Len(Load(StoreNow)) >= 2

\* C6: a search over n candidates returns their n entry_ids in candidate
\* order, repeated and known ones included, and the store grows by the number
\* of distinct entry_ids it did not hold; an empty batch returns the empty
\* list and leaves the collection as it was.
C6_ReturnsAllGrowsByNew ==
    SearchReturned =>
        LET results == last.collab.results
            before  == Load(last.before)
            fresh   == Range(BatchIds(results)) \ ExistingEntryIds(before)
        IN  /\ last.ret = RetList(BatchIds(results))
            /\ Len(last.ret.ids) = Len(results)
            /\ Len(Load(StoreNow)) = Len(before) + Cardinality(fresh)
            /\ results = <<>> =>
                   /\ last.ret = RetList(<<>>)
                   /\ Load(StoreNow) = before

\* three candidates, one of them known: three identifiers, two new records
C6_Witness ==
    /\ SearchReturned
    /\ Len(last.collab.results) = 3
    /\ Len(last.ret.ids) = 3
    /\ Cardinality(Range(BatchIds(last.collab.results))
                       \cap ExistingEntryIds(Load(last.before))) = 1
    /\ Len(Load(StoreNow)) = Len(Load(last.before)) + 2

\* a persisted state that is not a sequence of paper records
IsRecord(item) ==
    /\ item.t = "dict"
    /\ DOMAIN item.d = {"title", "authors", "summary", "pdf_url",
                        "published_date", "entry_id"}

Malformed(content) ==
    \/ content.kind \in {"invalid", "object"}
    \/ /\ content.kind = "list"
       /\ \E i \in 1..Len(content.items) : ~IsRecord(content.items[i])

\* the files a lookup can parse into a list
Readable(fs) ==
    [d \in DOMAIN fs |-> IF fs[d].kind = "list" THEN fs[d] ELSE Absent]

\* C4: a search over a malformed store raises nothing because of it and goes
\* on exactly as over an empty collection, and a lookup passes over
\* unreadable stores without raising and goes on with the others.
C4_TolerantLoad ==
    /\ (last.op = "search_papers" /\ Malformed(last.before)) =>
          /\ last.outcome # "TypeError"
          /\ last.collab.ok =>
                /\ last.outcome = "returned"
                /\ StoreNow = Persisted(Absent, last.collab.results)
                /\ last.ret = RetList(CurrentSearchIds(Absent, last.collab.results))
    /\ last.op = "extract_info" =>
          /\ last.outcome = "returned"
          /\ \E order \in Orders[ListDir(dirs)] :
                last.ret = ScanDirs(Readable(files), order, last.paper_id)

\* C8: when the collaborator fails, the search raises, returns no list, and
\* the topic's file is exactly what it was, malformed or not.
C8_CollaboratorFailure ==
    (/\ last.op = "search_papers"
     /\ ~last.collab.ok
     /\ ~EntryIdsRaises(Load(last.before))) =>
        /\ last.outcome = "CollaboratorError"
        /\ last.ret = RetNothing
        /\ StoreNow = last.before

\* the collaborator failed over a file that was not a list
C8_Witness ==
    /\ last.op = "search_papers"
    /\ last.outcome = "CollaboratorError"
    /\ last.before.kind \in {"invalid", "object"}
    /\ StoreNow = last.before

\* the records with this entry_id in any store
StoredRecords(id) ==
    UNION {{Load(files[d])[i].d : i \in RecordsWithId(Load(files[d]), id)} :
               d \in AllDirs}

\* C5: a lookup of an entry_id held by any topic store returns a stored record
\* with that id; a lookup of an id never stored returns the not-found message
\* with the id in it.
C5_LookupCompleteness ==
    last.op = "extract_info" =>
        IF StoredRecords(last.paper_id) # {}
        THEN last.ret \in {JsonText(r) : r \in StoredRecords(last.paper_id)}
        ELSE /\ last.ret.type = "str"
             /\ Contains(last.ret.chars, last.paper_id)

\* C9 as first stated: no entry_id is held by two different topic stores.
C9_NoIdInTwoStores ==
    \A d1, d2 \in AllDirs :
        d1 # d2 =>
            ExistingEntryIds(Load(files[d1]))
                \cap ExistingEntryIds(Load(files[d2])) = {}

\* what a lookup finds in the store directly below the root under this name
FoundIn(name, id) == ScanStore(Load(FileAt(files, <<name>>)), id)

\* C9: an entry_id may be held by several topic stores; the result of a lookup
\* is the same for every enumeration order whenever all the stores directly
\* below the root that hold the id hold the same record for it.
C9_OrderIndependentWhenRecordsAgree ==
    \A id \in LookupIds :
        (\A n1, n2 \in ListDir(dirs) :
            (FoundIn(n1, id).found /\ FoundIn(n2, id).found)
                => FoundIn(n1, id).d = FoundIn(n2, id).d)
        => Cardinality({ScanDirs(files, order, id) :
                            order \in Orders[ListDir(dirs)]}) <= 1

\* a lookup found an id that two stores below the root hold
C9_Witness ==
    /\ last.op = "extract_info"
    /\ last.ret.type = "json_text"
    /\ \E n1, n2 \in ListDir(dirs) :
          /\ n1 # n2
          /\ FoundIn(n1, last.paper_id).found
          /\ FoundIn(n2, last.paper_id).found
          /\ FoundIn(n1, last.paper_id).d = FoundIn(n2, last.paper_id).d
    /\ \E n3 \in ListDir(dirs) : ~FoundIn(n3, last.paper_id).found

\* the storage key each topic is to have: lowercase, spaces to underscores
ExpectedKey ==
    [t \in Topics |->
        CASE t = TopicQC   -> <<"q", "_", "c">>
          [] t = TopicQc   -> <<"q", "_", "c">>
          [] t = TopicML   -> <<"m", "l">>
          [] t = TopicAIML -> <<"a", "i", "/", "m", "l">>]

ExpectedStore == [t \in Topics |-> SplitPath(ExpectedKey[t])]

C7_ToolNotFound ==
    [][LET name == last'.tool
       IN  /\ name \notin {"search_papers", "extract_info"} =>
                 /\ last'.op = "execute_tool"
                 /\ last'.outcome = "ToolNotFoundError"
                 /\ name \in Range(last'.message)
                 /\ files' = files
                 /\ dirs' = dirs
           /\ name \in {"search_papers", "extract_info"} =>
                 /\ last'.op = name
                 /\ last'.outcome # "ToolNotFoundError"
      ]_vars

\* an unregistered name was asked for while stores held records
C7_Witness ==
    /\ last.op = "execute_tool"
    /\ last.tool = "searchAndPersist"
    /\ last.outcome = "ToolNotFoundError"
    /\ \E d \in AllDirs : Len(Load(files[d])) >= 1

====
